---- MODULE Spec2Model ----
(***************************************************************************)
(* Model of the respiration monitor firmware (Prototype/src): the          *)
(* cooperative loop of main.cpp and the four managers it drives            *)
(* (ButtonManager, BuzzerManager, SensorManager, BLEManager), with the     *)
(* BLE stack's callbacks and the physical button as the environment.       *)
(*                                                                         *)
(* Time is in milliseconds. The program uses millis() only to stamp an     *)
(* event and, later, to subtract the stamp from the clock. The model        *)
(* therefore measures time from the present instant: the clock reads        *)
(* millis = 0, a stamp is the (negative) time at which its event happened,   *)
(* and the passing of d ms moves every stamp back by d (Passed). A stamp     *)
(* older than the window it is compared with is kept at "just older than     *)
(* the window": the program cannot tell the two apart.                       *)
(***************************************************************************)
EXTENDS Integers, Sequences, FiniteSets, TLC

(***************************************************************************)
(* config.h, ble_comm.h: compiled-in configuration and enumerations        *)
(***************************************************************************)
CO2_THRESHOLD_LOW == 1000
CO2_THRESHOLD_MED == 5000
CO2_THRESHOLD_HIGH == 10000

ALERT_NONE == 0
ALERT_LOW == 1
ALERT_MEDIUM == 2
ALERT_HIGH == 3
ALERT_CRITICAL == 4

AlertLevel == {ALERT_NONE, ALERT_LOW, ALERT_MEDIUM, ALERT_HIGH, ALERT_CRITICAL}

STATE_SLEEPING == "STATE_SLEEPING"
STATE_WAKING_UP == "STATE_WAKING_UP"
STATE_READING_SENSORS == "STATE_READING_SENSORS"
STATE_PROCESSING_ALERTS == "STATE_PROCESSING_ALERTS"
STATE_BLE_COMMUNICATION == "STATE_BLE_COMMUNICATION"
STATE_PREPARING_SLEEP == "STATE_PREPARING_SLEEP"

SystemState ==
    {STATE_SLEEPING, STATE_WAKING_UP, STATE_READING_SENSORS,
     STATE_PROCESSING_ALERTS, STATE_BLE_COMMUNICATION, STATE_PREPARING_SLEEP}

BUTTON_DEBOUNCE_MS == 50
BUTTON_HOLD_TIME_MS == 2000
SENSOR_READ_INTERVAL_MS == 1000
BLE_TIMEOUT_MS == 30000

CMD_NONE == 0
CMD_MUTE_BUZZER == 1
CMD_FORCE_SLEEP == 2
CMD_REQUEST_DATA == 3
CMD_RESET_ALERTS == 4

BLECommand == {CMD_NONE, CMD_MUTE_BUZZER, CMD_FORCE_SLEEP, CMD_REQUEST_DATA, CMD_RESET_ALERTS}

\* Arduino pin levels.
HIGH == "HIGH"
LOW == "LOW"

(***************************************************************************)
(* Bounds of the model                                                     *)
(***************************************************************************)
\* Time that may pass between two calls in the component harness of
\* ButtonManager: half a debounce window, and a whole hold window.
ButtonTimeSteps == {25, 2000}
\* The same for BuzzerManager: half a toggle period, and a whole one.
BuzzerTimeSteps == {250, 500}
\* The same for SensorManager: half a read interval, and a whole one.
SensorTimeSteps == {500, 1000}
\* Durations of one pass of loop() (delay(10) plus the work of the pass):
\* a third of the BLE time-out, and the whole of it.
LoopTimeSteps == {10000, 30000}
\* Environment events explored in one run: presses of the button,
\* attachments of a peer and writes of the control characteristic together.
MaxEvents == 3
\* eCO2 values the sensor bus may deliver.
Co2Samples == {800, 1500, 6000, 11000}
\* eCO2 values given to getAlertLevel() on its own: the thresholds, their
\* neighbours, the ends of uint16_t and every multiple of 500 up to
\* 500 * MaxCo2Steps.
MaxCo2Steps == 24
ClassifyInputs ==
    {0, 1, 999, 1000, 1001, 4999, 5000, 5001, 9999, 10000, 10001, 65535}
        \cup {500 * k : k \in 0..MaxCo2Steps}
\* Longest payload a peer writes to the control characteristic.
MaxPayloadLen == 2
\* Characters of those payloads.
PayloadChars == {"0", "1", "2", "3", "4", "5", "-", " ", "x"}

VARIABLES
    events,         \* number of environment events so far
    buttonPin,      \* physical level of BUTTON_PIN (pull-up: LOW = pressed)
    button,         \* ButtonManager's fields
    btnObs,         \* observer of the current press (not program state)
    ret,            \* last call of the component harness and its result
    buzzer,         \* BuzzerManager's fields and the PWM channel it drives
    sensor,         \* SensorManager's fields
    ble,            \* BLEManager's fields and the advertising state
    ctrlValue,      \* value of the control characteristic (harness of onWrite)
    currentState,   \* main.cpp globals
    currentSensorData,
    currentAlert,
    lastSensorRead,
    systemInitialized,
    pc,             \* position of the loop task
    command,        \* handleBLECommands' local
    tick,           \* what the current pass of loop() has done so far
    unconsumed,     \* a command was written since the last one was executed
    probe           \* observer of the session and of the component harnesses

vars ==
    <<events, buttonPin, button, btnObs, ret, buzzer, sensor, ble, ctrlValue,
      currentState, currentSensorData, currentAlert, lastSensorRead,
      systemInitialized, pc, command, tick, unconsumed, probe>>

(***************************************************************************)
(* The clock                                                               *)
(***************************************************************************)
\* millis(), measured from the present instant.
millis == 0

\* t - since in unsigned long arithmetic: since is an earlier reading of the
\* clock, so the subtraction does not wrap.
Elapsed(t, since) == t - since

\* A stamp after d ms have passed, where the program compares the stamp's
\* age with window only.
Passed(stamp, d, window) ==
    IF stamp - d < 0 - (window + 1) THEN 0 - (window + 1) ELSE stamp - d

(***************************************************************************)
(* button.cpp                                                              *)
(***************************************************************************)
ButtonManager_ButtonManager ==
    [lastDebounceTime |-> 0,
     buttonPressTime  |-> 0,
     lastButtonState  |-> HIGH,
     buttonState      |-> HIGH,
     wasPressed_flag  |-> FALSE,
     wasHeld_flag     |-> FALSE]

\* button.cpp:27
\* A variant without a debounce window.
DebounceNoWindow(t, lastDebounceTime) == Elapsed(t, lastDebounceTime) >= 0

DebounceElapsed(t, lastDebounceTime) ==
    Elapsed(t, lastDebounceTime) > BUTTON_DEBOUNCE_MS

\* A variant that does not look at the debounced level.
HoldDueMissingLevelCheck(b, t) ==
    ~b.wasHeld_flag /\ Elapsed(t, b.buttonPressTime) >= BUTTON_HOLD_TIME_MS

\* button.cpp:40-41
HoldDue(b, t) ==
    /\ b.buttonState = LOW
    /\ ~b.wasHeld_flag
    /\ Elapsed(t, b.buttonPressTime) >= BUTTON_HOLD_TIME_MS

\* button.cpp:28-36
AcceptEdge(b, reading, t) ==
    IF reading = LOW
    THEN [b EXCEPT !.buttonState = reading,
                   !.wasPressed_flag = TRUE,
                   !.buttonPressTime = t]
    ELSE [b EXCEPT !.buttonState = reading]

\* update(): reading is digitalRead(BUTTON_PIN), t is millis().
ButtonManager_update(b, reading, t) ==
    LET b1 == IF reading # b.lastButtonState
              THEN [b EXCEPT !.lastDebounceTime = t]
              ELSE b
        b2 == IF DebounceElapsed(t, b1.lastDebounceTime) /\ reading # b1.buttonState
              THEN AcceptEdge(b1, reading, t)
              ELSE b1
        b3 == IF HoldDue(b2, t)
              THEN [b2 EXCEPT !.wasHeld_flag = TRUE]
              ELSE b2
    IN  [b3 EXCEPT !.lastButtonState = reading]

\* A variant that returns the flag without clearing it.
WasPressedKeepsFlag(b) == b

\* wasPressed(): the value returned, and the fields afterwards.
ButtonManager_wasPressed_after(b) == [b EXCEPT !.wasPressed_flag = FALSE]

ButtonManager_wasPressed_result(b) == b.wasPressed_flag

\* wasHeld(): the value returned, and the fields afterwards.
ButtonManager_wasHeld_after(b) == [b EXCEPT !.wasHeld_flag = FALSE]

ButtonManager_wasHeld_result(b) == b.wasHeld_flag

(***************************************************************************)
(* Observer of the press in progress, computed from the fields before and  *)
(* after a call:                                                           *)
(*   down        a debounced press is in progress                          *)
(*   acceptedAt  millis() when that press was accepted                     *)
(*   pressRaised the Pressed flag was set when that press was accepted     *)
(*   heldRaises  how many times update() has set the Held flag during that *)
(*               press while the pin stayed LOW (counted up to 2)          *)
(* and of the raw level, from the samples update() has taken:              *)
(*   sample      the level update() sampled last ("none" before the first) *)
(*   runStart    millis() at the first of the latest run of equal samples  *)
(*   pulse       the latest update() sampled HIGH after a run of LOW       *)
(*               samples that was never accepted                           *)
(***************************************************************************)
ObsInit ==
    [down |-> FALSE, acceptedAt |-> 0, pressRaised |-> FALSE, heldRaises |-> 0,
     sample |-> "none", runStart |-> 0, pulse |-> FALSE]

\* reading is the level this call of update() has sampled.
\* accepted is the debounced level before the call.
ObsAfterSample(o, reading, accepted, t) ==
    IF reading # o.sample
    THEN [o EXCEPT !.sample = reading, !.runStart = t,
                   !.pulse = (o.sample = LOW /\ reading = HIGH /\ accepted = HIGH)]
    ELSE [o EXCEPT !.pulse = FALSE]

ObsAfterUpdate(o, b, b2, t) ==
    LET o0 == ObsAfterSample(o, b2.lastButtonState, b.buttonState, t)
        o1 == IF b.buttonState = HIGH /\ b2.buttonState = LOW
              THEN [o0 EXCEPT !.down = TRUE, !.acceptedAt = t,
                              !.pressRaised = b2.wasPressed_flag, !.heldRaises = 0]
              ELSE IF b2.buttonState = HIGH
                   THEN [o0 EXCEPT !.down = FALSE, !.acceptedAt = 0,
                                   !.pressRaised = FALSE, !.heldRaises = 0]
                   ELSE o0
    IN  IF ~b.wasHeld_flag /\ b2.wasHeld_flag
        THEN [o1 EXCEPT !.heldRaises = IF @ < 2 THEN @ + 1 ELSE 2]
        ELSE o1

ObsAfterPin(o, pin) ==
    IF pin = HIGH THEN [o EXCEPT !.heldRaises = 0] ELSE o

\* Observer of the session:
\*   everConnected  a peer has attached since begin()
\*   sinceReset     ResetAlerts was executed, and since then MuteAlarm was
\*                  not executed and ProcessingAlerts was not handled
\*   detachPending  a peer has detached and handleConnection() has not
\*                  restarted advertising since
\* and of the component harnesses:
\*   pattern        level of the buzzer pattern started last, if nothing has
\*                  stopped or muted it from outside since (else ALERT_NONE)
\*   toggles        update() calls made since, each at least 500 ms after
\*                  the start or the call counted before it (up to 10)
\*   toggleAt       millis() at the start or at the last call counted
\*   sample         what the bus gave to the last read
ProbeInit ==
    [everConnected |-> FALSE, sinceReset |-> FALSE, detachPending |-> FALSE,
     pattern |-> ALERT_NONE, toggles |-> 0, toggleAt |-> 0, sample |-> "none"]

ProbeAfterCommand(p, cmd) ==
    IF cmd = CMD_RESET_ALERTS THEN [p EXCEPT !.sinceReset = TRUE]
    ELSE IF cmd = CMD_MUTE_BUZZER THEN [p EXCEPT !.sinceReset = FALSE]
    ELSE p

ProbeAfterProcessing(p) == [p EXCEPT !.sinceReset = FALSE]

ProbeAfterDisconnect(p) == [p EXCEPT !.detachPending = TRUE]

\* restarted: handleConnection() has called startAdvertising().
ProbeAfterHandleConnection(p, restarted) ==
    IF restarted THEN [p EXCEPT !.detachPending = FALSE] ELSE p

\* started: the call found the buzzer unmuted and level is not ALERT_NONE.
ProbeAfterStart(p, started, level, t) ==
    IF started
    THEN [p EXCEPT !.pattern = level, !.toggles = 0, !.toggleAt = t]
    ELSE p

ProbeAfterStopOrMute(p) ==
    [p EXCEPT !.pattern = ALERT_NONE, !.toggles = 0, !.toggleAt = 0]

ProbeAfterBuzzerUpdate(p, t) ==
    IF p.pattern # ALERT_NONE /\ p.toggles < 10 /\ t - p.toggleAt >= 500
    THEN [p EXCEPT !.toggles = @ + 1, !.toggleAt = t]
    ELSE p

ProbeLater(p, d) ==
    [p EXCEPT !.toggleAt = IF @ - d < 0 - 501 THEN 0 - 501 ELSE @ - d]

(***************************************************************************)
(* buzzer.cpp                                                              *)
(***************************************************************************)
\* buzzer.cpp:76 and buzzer.cpp:87
BUZZER_TOGGLE_MS == 500
BUZZER_REPEATS == 10

BuzzerManager_BuzzerManager ==
    [isMuted        |-> FALSE,
     currentAlert   |-> ALERT_NONE,
     lastToggleTime |-> 0,
     currentRepeat  |-> 0,
     freq           |-> 0,      \* PWM channel 0: frequency and duty cycle
     duty           |-> 0]

BuzzerManager_begin(z) == [z EXCEPT !.freq = 1000, !.duty = 0]

\* A variant that starts the pattern although the buzzer is muted.
StartAlertIgnoresMute(z, level, t) ==
    IF level = ALERT_NONE
    THEN z
    ELSE LET z1 == [z EXCEPT !.currentAlert = level,
                             !.currentRepeat = 0,
                             !.lastToggleTime = t]
         IN  CASE level = ALERT_LOW      -> [z1 EXCEPT !.freq = 800,  !.duty = 128]
               [] level = ALERT_MEDIUM   -> [z1 EXCEPT !.freq = 1200, !.duty = 128]
               [] level = ALERT_HIGH     -> [z1 EXCEPT !.freq = 1800, !.duty = 128]
               [] level = ALERT_CRITICAL -> [z1 EXCEPT !.freq = 2500, !.duty = 128]
               [] OTHER                  -> [z1 EXCEPT !.duty = 0]

BuzzerManager_startAlert(z, level, t) ==
    IF z.isMuted \/ level = ALERT_NONE
    THEN z
    ELSE LET z1 == [z EXCEPT !.currentAlert = level,
                             !.currentRepeat = 0,
                             !.lastToggleTime = t]
         IN  CASE level = ALERT_LOW      -> [z1 EXCEPT !.freq = 800,  !.duty = 128]
               [] level = ALERT_MEDIUM   -> [z1 EXCEPT !.freq = 1200, !.duty = 128]
               [] level = ALERT_HIGH     -> [z1 EXCEPT !.freq = 1800, !.duty = 128]
               [] level = ALERT_CRITICAL -> [z1 EXCEPT !.freq = 2500, !.duty = 128]
               [] OTHER                  -> [z1 EXCEPT !.duty = 0]

BuzzerManager_stopAlert(z) ==
    [z EXCEPT !.currentAlert = ALERT_NONE, !.currentRepeat = 0, !.duty = 0]

BuzzerManager_mute(z) == [z EXCEPT !.isMuted = TRUE, !.duty = 0]

BuzzerManager_unmute(z) == [z EXCEPT !.isMuted = FALSE]

\* A variant that stops one toggle late.
UpdateStopsAfterEleven(z, t) ==
    IF z.currentAlert = ALERT_NONE \/ z.isMuted
    THEN z
    ELSE IF Elapsed(t, z.lastToggleTime) >= BUZZER_TOGGLE_MS
         THEN LET r  == z.currentRepeat + 1
                  z1 == [z EXCEPT !.lastToggleTime = t,
                                  !.currentRepeat = r,
                                  !.duty = IF r % 2 = 0 THEN 128 ELSE 0]
              IN  IF r > BUZZER_REPEATS THEN BuzzerManager_stopAlert(z1) ELSE z1
         ELSE z

BuzzerManager_update(z, t) ==
    IF z.currentAlert = ALERT_NONE \/ z.isMuted
    THEN z
    ELSE IF Elapsed(t, z.lastToggleTime) >= BUZZER_TOGGLE_MS
         THEN LET r  == z.currentRepeat + 1
                  z1 == [z EXCEPT !.lastToggleTime = t,
                                  !.currentRepeat = r,
                                  !.duty = IF r % 2 = 0 THEN 128 ELSE 0]
              IN  IF r >= BUZZER_REPEATS THEN BuzzerManager_stopAlert(z1) ELSE z1
         ELSE z

BuzzerManager_isBuzzerActive(z) == z.currentAlert # ALERT_NONE /\ ~z.isMuted

(***************************************************************************)
(* sensor.cpp                                                              *)
(***************************************************************************)
\* A SensorData all of whose fields are zero: the value of the global
\* currentSensorData at start-up and of SensorManager's lastReading.
SensorData_zero ==
    [co2_ppm |-> 0, humidity_percent |-> 0, temperature_celsius |-> 0,
     valid |-> FALSE, timestamp |-> 0]

SensorManager_SensorManager ==
    [initialized |-> FALSE, lastReadTime |-> 0, lastReading |-> SensorData_zero]

\* What one attempt to sample the bus gives: a failure of the AHT21 or of the
\* ENS160, or the three measurements.
BusFail == [ok |-> FALSE, co2 |-> 0, humidity |-> 0, temperature |-> 0]

BusSamples ==
    {BusFail} \cup {[ok |-> TRUE, co2 |-> c, humidity |-> 40, temperature |-> 25] : c \in Co2Samples}

\* A variant in which a failed sample invalidates the cached reading.
ReadSensorsFailureDropsCache(s, data, t, sample) ==
    IF ~s.initialized
    THEN [ok |-> FALSE, sensor |-> s, data |-> [data EXCEPT !.valid = FALSE]]
    ELSE IF Elapsed(t, s.lastReadTime) < SENSOR_READ_INTERVAL_MS /\ s.lastReading.valid
         THEN [ok |-> TRUE, sensor |-> s, data |-> s.lastReading]
         ELSE IF ~sample.ok
              THEN [ok |-> FALSE,
                    sensor |-> [s EXCEPT !.lastReading.valid = FALSE],
                    data |-> [data EXCEPT !.valid = FALSE]]
              ELSE LET d == [co2_ppm |-> sample.co2,
                             humidity_percent |-> sample.humidity,
                             temperature_celsius |-> sample.temperature,
                             valid |-> TRUE,
                             timestamp |-> t]
                   IN  [ok |-> TRUE,
                        sensor |-> [s EXCEPT !.lastReading = d, !.lastReadTime = t],
                        data |-> d]

\* readSensors(data): the value returned, the manager's fields and data
\* afterwards. sample is what the bus gives if it is sampled.
SensorManager_readSensors(s, data, t, sample) ==
    IF ~s.initialized
    THEN [ok |-> FALSE, sensor |-> s, data |-> [data EXCEPT !.valid = FALSE]]
    ELSE IF Elapsed(t, s.lastReadTime) < SENSOR_READ_INTERVAL_MS /\ s.lastReading.valid
         THEN [ok |-> TRUE, sensor |-> s, data |-> s.lastReading]
         ELSE IF ~sample.ok
              THEN [ok |-> FALSE, sensor |-> s, data |-> [data EXCEPT !.valid = FALSE]]
              ELSE LET d == [co2_ppm |-> sample.co2,
                             humidity_percent |-> sample.humidity,
                             temperature_celsius |-> sample.temperature,
                             valid |-> TRUE,
                             timestamp |-> t]
                   IN  [ok |-> TRUE,
                        sensor |-> [s EXCEPT !.lastReading = d, !.lastReadTime = t],
                        data |-> d]

\* A variant whose bands exclude their upper bounds.
GetAlertLevelExclusiveBounds(co2_ppm) ==
    IF co2_ppm < CO2_THRESHOLD_LOW THEN ALERT_NONE
    ELSE IF co2_ppm < CO2_THRESHOLD_MED THEN ALERT_LOW
    ELSE IF co2_ppm < CO2_THRESHOLD_HIGH THEN ALERT_MEDIUM
    ELSE ALERT_HIGH

SensorManager_getAlertLevel(co2_ppm) ==
    IF co2_ppm <= CO2_THRESHOLD_LOW THEN ALERT_NONE
    ELSE IF co2_ppm <= CO2_THRESHOLD_MED THEN ALERT_LOW
    ELSE IF co2_ppm <= CO2_THRESHOLD_HIGH THEN ALERT_MEDIUM
    ELSE ALERT_HIGH

(***************************************************************************)
(* ble_comm.cpp                                                            *)
(***************************************************************************)
\* server: the BLEServer exists (begin() has run); advertising: the stack
\* is advertising.
BLEManager_BLEManager ==
    [server             |-> FALSE,
     deviceConnected    |-> FALSE,
     oldDeviceConnected |-> FALSE,
     pendingCommand     |-> CMD_NONE,
     bleStartTime       |-> 0,
     advertising        |-> FALSE]

BLEManager_begin(b, t) ==
    [b EXCEPT !.server = TRUE, !.advertising = TRUE, !.bleStartTime = t]

\* sendSensorData(): the records pushed to the peer by this call (none when
\* no peer is connected). The record keeps the reading's valid flag, which
\* the wire format does not carry.
BLEManager_sendSensorData(b, data, alertLevel) ==
    IF ~b.deviceConnected \/ ~b.server
    THEN <<>>
    ELSE << [co2 |-> data.co2_ppm,
             humidity |-> data.humidity_percent,
             temperature |-> data.temperature_celsius,
             alert |-> alertLevel,
             timestamp |-> data.timestamp,
             valid |-> data.valid] >>

BLEManager_getCommand(b) == b.pendingCommand

\* A variant that leaves the command pending.
ClearCommandKeepsPending(b) == b

BLEManager_clearCommand(b) == [b EXCEPT !.pendingCommand = CMD_NONE]

BLEManager_isConnected(b) == b.deviceConnected

BLEManager_hasTimedOut(b, t) == Elapsed(t, b.bleStartTime) > BLE_TIMEOUT_MS

\* A variant that leaves advertising as it is.
StopKeepsAdvertising(b) == b

BLEManager_stop(b) == IF b.server THEN [b EXCEPT !.advertising = FALSE] ELSE b

\* handleConnection(): the fields afterwards; Disconnected(b) is the branch
\* that waits 500 ms and restarts advertising.
Disconnected(b) == ~b.deviceConnected /\ b.oldDeviceConnected

BLEManager_handleConnection(b) ==
    LET b1 == IF Disconnected(b)
              THEN [b EXCEPT !.advertising = IF b.server THEN TRUE ELSE @,
                             !.oldDeviceConnected = b.deviceConnected]
              ELSE b
    IN  IF b1.deviceConnected /\ ~b1.oldDeviceConnected
        THEN [b1 EXCEPT !.oldDeviceConnected = b1.deviceConnected]
        ELSE b1

ServerCallbacks_onConnect(b) == [b EXCEPT !.deviceConnected = TRUE]

ServerCallbacks_onDisconnect(b) == [b EXCEPT !.deviceConnected = FALSE]

\* atoi(): leading white space, an optional sign, then decimal digits up to
\* the first character that is not a digit. (Payloads of at most
\* MaxPayloadLen characters cannot overflow an int.)
IsDigit(c) == c \in {"0", "1", "2", "3", "4", "5", "6", "7", "8", "9"}

DigitValue(c) ==
    CASE c = "0" -> 0 [] c = "1" -> 1 [] c = "2" -> 2 [] c = "3" -> 3 [] c = "4" -> 4
      [] c = "5" -> 5 [] c = "6" -> 6 [] c = "7" -> 7 [] c = "8" -> 8 [] c = "9" -> 9

RECURSIVE SkipSpace(_)
SkipSpace(s) ==
    IF s # <<>> /\ Head(s) = " " THEN SkipSpace(Tail(s)) ELSE s

RECURSIVE Digits(_, _)
Digits(s, acc) ==
    IF s # <<>> /\ IsDigit(Head(s))
    THEN Digits(Tail(s), 10 * acc + DigitValue(Head(s)))
    ELSE acc

atoi(s) ==
    LET r == SkipSpace(s)
    IN  IF r = <<>> THEN 0
        ELSE IF Head(r) = "-" THEN 0 - Digits(Tail(r), 0)
        ELSE IF Head(r) = "+" THEN Digits(Tail(r), 0)
        ELSE Digits(r, 0)

\* onWrite(): value is the payload the peer wrote.
\* A variant whose default case clears the pending command.
OnWriteUnknownClearsPending(b, value) ==
    IF Len(value) > 0
    THEN LET cmd == atoi(value)
         IN  CASE cmd = 1 -> [b EXCEPT !.pendingCommand = CMD_MUTE_BUZZER]
               [] cmd = 2 -> [b EXCEPT !.pendingCommand = CMD_FORCE_SLEEP]
               [] cmd = 3 -> [b EXCEPT !.pendingCommand = CMD_REQUEST_DATA]
               [] cmd = 4 -> [b EXCEPT !.pendingCommand = CMD_RESET_ALERTS]
               [] OTHER   -> [b EXCEPT !.pendingCommand = CMD_NONE]
    ELSE b

ControlCallbacks_onWrite(b, value) ==
    IF Len(value) > 0
    THEN LET cmd == atoi(value)
         IN  CASE cmd = 1 -> [b EXCEPT !.pendingCommand = CMD_MUTE_BUZZER]
               [] cmd = 2 -> [b EXCEPT !.pendingCommand = CMD_FORCE_SLEEP]
               [] cmd = 3 -> [b EXCEPT !.pendingCommand = CMD_REQUEST_DATA]
               [] cmd = 4 -> [b EXCEPT !.pendingCommand = CMD_RESET_ALERTS]
               [] OTHER   -> b
    ELSE b

\* The payloads a peer may write, and those explored while the loop runs.
Payloads ==
    UNION {[1..n -> PayloadChars] : n \in 0..MaxPayloadLen}

LoopPayloads == {<<>>, <<"1">>, <<"2">>, <<"3">>, <<"4">>, <<"5">>, <<"x">>}

(***************************************************************************)
(* main.cpp                                                                *)
(***************************************************************************)
\* What one pass of loop() has done so far:
\*   entry     currentState when the pass began
\*   pressed   wasPressed() returned true;  held  wasHeld() returned true
\*   executed  the command handleBLECommands executed (CMD_NONE: none)
\*   handled   the case of handleSystemStates' switch that ran ("none": not yet)
\*   buzz      the call processAlerts made on the buzzer: "start", "stop", "none"
\*   prevAlert currentAlert when processAlerts was entered
\*   sent      the telemetry records pushed to the peer
TickInit(state) ==
    [entry |-> state, pressed |-> FALSE, held |-> FALSE, executed |-> CMD_NONE,
     handled |-> "none", buzz |-> "none", prevAlert |-> ALERT_NONE, sent |-> <<>>]

\* A variant that honours Held in one state only.
SleepOnHeldOnlyWhenReading(state, held) ==
    IF held /\ state = STATE_READING_SENSORS THEN STATE_PREPARING_SLEEP ELSE state

\* main.cpp:65-71
SleepOnHeld(state, held) ==
    IF held /\ state # STATE_SLEEPING THEN STATE_PREPARING_SLEEP ELSE state

\* A variant that starts the buzzer only when the level rises.
processAlertsOnlyEscalates(alert, data, z, t) ==
    IF ~data.valid
    THEN [currentAlert |-> alert, buzzer |-> z, call |-> "none"]
    ELSE LET newAlert == SensorManager_getAlertLevel(data.co2_ppm)
         IN  IF newAlert > alert /\ newAlert # ALERT_NONE
             THEN [currentAlert |-> newAlert,
                   buzzer |-> BuzzerManager_startAlert(z, newAlert, t),
                   call |-> "start"]
             ELSE IF newAlert = ALERT_NONE /\ alert # ALERT_NONE
                  THEN [currentAlert |-> ALERT_NONE,
                        buzzer |-> BuzzerManager_stopAlert(z),
                        call |-> "stop"]
                  ELSE [currentAlert |-> alert, buzzer |-> z, call |-> "none"]

\* main.cpp:181-200. The new currentAlert, the buzzer afterwards and the
\* call made on it.
processAlerts(alert, data, z, t) ==
    IF ~data.valid
    THEN [currentAlert |-> alert, buzzer |-> z, call |-> "none"]
    ELSE LET newAlert == SensorManager_getAlertLevel(data.co2_ppm)
         IN  IF newAlert # alert /\ newAlert # ALERT_NONE
             THEN [currentAlert |-> newAlert,
                   buzzer |-> BuzzerManager_startAlert(z, newAlert, t),
                   call |-> "start"]
             ELSE IF newAlert = ALERT_NONE /\ alert # ALERT_NONE
                  THEN [currentAlert |-> ALERT_NONE,
                        buzzer |-> BuzzerManager_stopAlert(z),
                        call |-> "stop"]
                  ELSE [currentAlert |-> alert, buzzer |-> z, call |-> "none"]

\* A variant whose ResetAlerts stops the alarm but leaves the recorded level.
ExecuteCommandResetKeepsLevel(cmd, st) ==
    CASE cmd = CMD_MUTE_BUZZER  -> [st EXCEPT !.buzzer = BuzzerManager_mute(@)]
      [] cmd = CMD_FORCE_SLEEP  -> [st EXCEPT !.currentState = STATE_PREPARING_SLEEP]
      [] cmd = CMD_REQUEST_DATA ->
            [st EXCEPT !.sent = @ \o BLEManager_sendSensorData(ble, currentSensorData, currentAlert)]
      [] cmd = CMD_RESET_ALERTS ->
            [st EXCEPT !.buzzer = BuzzerManager_unmute(BuzzerManager_stopAlert(@))]
      [] OTHER -> st

\* A variant whose ResetAlerts clears the mute flag without stopping the
\* pattern.
ExecuteCommandResetOnlyUnmutes(cmd, st) ==
    CASE cmd = CMD_MUTE_BUZZER  -> [st EXCEPT !.buzzer = BuzzerManager_mute(@)]
      [] cmd = CMD_FORCE_SLEEP  -> [st EXCEPT !.currentState = STATE_PREPARING_SLEEP]
      [] cmd = CMD_REQUEST_DATA ->
            [st EXCEPT !.sent = @ \o BLEManager_sendSensorData(ble, currentSensorData, currentAlert)]
      [] cmd = CMD_RESET_ALERTS ->
            [st EXCEPT !.buzzer = BuzzerManager_unmute(@),
                       !.currentAlert = ALERT_NONE]
      [] OTHER -> st

\* main.cpp:206-232: the switch of handleBLECommands, on the state it touches.
ExecuteCommand(cmd, st) ==
    CASE cmd = CMD_MUTE_BUZZER  -> [st EXCEPT !.buzzer = BuzzerManager_mute(@)]
      [] cmd = CMD_FORCE_SLEEP  -> [st EXCEPT !.currentState = STATE_PREPARING_SLEEP]
      [] cmd = CMD_REQUEST_DATA ->
            [st EXCEPT !.sent = @ \o BLEManager_sendSensorData(ble, currentSensorData, currentAlert)]
      [] cmd = CMD_RESET_ALERTS ->
            [st EXCEPT !.buzzer = BuzzerManager_unmute(BuzzerManager_stopAlert(@)),
                       !.currentAlert = ALERT_NONE]
      [] OTHER -> st

\* A variant that gives up when the sensors cannot be read.
ReadingNextSleepsOnFailure(ok, state) ==
    IF ok THEN STATE_PROCESSING_ALERTS ELSE STATE_PREPARING_SLEEP

\* main.cpp:127-134
ReadingNext(ok, state) == IF ok THEN STATE_PROCESSING_ALERTS ELSE state

\* A variant in which the timeout never leads to sleep.
CommunicationNextAlwaysReads(timedOut, connected) == STATE_READING_SENSORS

\* main.cpp:152-160
CommunicationNext(timedOut, connected) ==
    IF timedOut /\ ~connected THEN STATE_PREPARING_SLEEP ELSE STATE_READING_SENSORS

(***************************************************************************)
(* The passing of d ms: every stamp the program keeps moves back by d.     *)
(***************************************************************************)
ButtonLater(b, d) ==
    [b EXCEPT !.lastDebounceTime = Passed(@, d, BUTTON_DEBOUNCE_MS),
              !.buttonPressTime  = Passed(@, d, BUTTON_HOLD_TIME_MS)]

ObsLater(o, d) ==
    [o EXCEPT !.acceptedAt = Passed(@, d, BUTTON_HOLD_TIME_MS),
              !.runStart   = Passed(@, d, BUTTON_DEBOUNCE_MS)]

BuzzerLater(z, d) == [z EXCEPT !.lastToggleTime = Passed(@, d, BUZZER_TOGGLE_MS)]

DataLater(data, d) == [data EXCEPT !.timestamp = Passed(@, d, SENSOR_READ_INTERVAL_MS)]

SensorLater(s, d) ==
    [s EXCEPT !.lastReadTime = Passed(@, d, SENSOR_READ_INTERVAL_MS),
              !.lastReading  = DataLater(@, d)]

BleLater(b, d) == [b EXCEPT !.bleStartTime = Passed(@, d, BLE_TIMEOUT_MS)]

\* The state after d ms, given the fields as the step leaves them.
TimePasses(d, b, o, z, s, bl, data, lsr) ==
    /\ button' = ButtonLater(b, d)
    /\ btnObs' = ObsLater(o, d)
    /\ buzzer' = BuzzerLater(z, d)
    /\ sensor' = SensorLater(s, d)
    /\ ble' = BleLater(bl, d)
    /\ currentSensorData' = DataLater(data, d)
    /\ lastSensorRead' = Passed(lsr, d, SENSOR_READ_INTERVAL_MS)

(***************************************************************************)
(* Initial state: the globals as their constructors leave them             *)
(***************************************************************************)
Constructed ==
    /\ events = 0
    /\ buttonPin = HIGH
    /\ button = ButtonManager_ButtonManager
    /\ btnObs = ObsInit
    /\ ret = [op |-> "none", val |-> FALSE]
    /\ buzzer = BuzzerManager_BuzzerManager
    /\ sensor = SensorManager_SensorManager
    /\ ctrlValue = <<>>
    /\ currentState = STATE_SLEEPING
    /\ currentSensorData = SensorData_zero
    /\ currentAlert = ALERT_NONE
    /\ lastSensorRead = 0
    /\ systemInitialized = FALSE
    /\ command = CMD_NONE
    /\ tick = TickInit(STATE_SLEEPING)
    /\ unconsumed = FALSE
    /\ probe = ProbeInit

Init == Constructed /\ ble = BLEManager_BLEManager /\ pc = "setup"

(***************************************************************************)
(* setup() and setupSystem(): sensorOk is the result of                    *)
(* sensorManager.begin(), the one begin() that can fail. setup() waits     *)
(* 1000 ms before setupSystem(), and sensorManager.begin() 500 ms before   *)
(* it returns true (sensor.cpp:33).                                        *)
(***************************************************************************)
Setup ==
    /\ pc = "setup"
    /\ \E sensorOk \in BOOLEAN :
         LET d  == IF sensorOk THEN 1500 ELSE 1000
             b  == ButtonLater(button, d)
             o  == ObsLater(btnObs, d)
             z  == BuzzerLater(BuzzerManager_begin(buzzer), d)
             s  == [SensorLater(sensor, d) EXCEPT !.initialized = sensorOk]
             bl == IF sensorOk THEN BLEManager_begin(ble, millis) ELSE BleLater(ble, d)
         IN  TimePasses(0, b, o, z, s, bl, DataLater(currentSensorData, d),
                        Passed(lastSensorRead, d, SENSOR_READ_INTERVAL_MS))
    /\ currentState' = STATE_WAKING_UP
    /\ systemInitialized' = TRUE
    /\ tick' = TickInit(STATE_WAKING_UP)
    /\ pc' = "loop"
    /\ UNCHANGED <<events, buttonPin, ret, ctrlValue, currentAlert, command, unconsumed,
                   probe>>

(***************************************************************************)
(* loop(), one step per call it makes                                      *)
(***************************************************************************)
\* main.cpp:49-54
LoopUpdate ==
    /\ pc = "loop"
    /\ systemInitialized
    /\ button' = ButtonManager_update(button, buttonPin, millis)
    /\ btnObs' = ObsAfterUpdate(btnObs, button, button', millis)
    /\ buzzer' = BuzzerManager_update(buzzer, millis)
    /\ pc' = "conn"
    /\ UNCHANGED <<events, buttonPin, ret, sensor, ble, ctrlValue, currentState,
                   currentSensorData, currentAlert, lastSensorRead,
                   systemInitialized, command, tick, unconsumed, probe>>

\* main.cpp:55; delay(500) at ble_comm.cpp:113
HandleConnection ==
    /\ pc = "conn"
    /\ TimePasses(IF Disconnected(ble) THEN 500 ELSE 0,
                  button, btnObs, buzzer, sensor, BLEManager_handleConnection(ble),
                  currentSensorData, lastSensorRead)
    /\ probe' = ProbeAfterHandleConnection(probe, Disconnected(ble) /\ ble.server)
    /\ pc' = "buttons"
    /\ UNCHANGED <<events, buttonPin, ret, ctrlValue, currentState, currentAlert,
                   systemInitialized, command, tick, unconsumed>>

\* main.cpp:58-71
HandleButtons ==
    /\ pc = "buttons"
    /\ LET pressed == ButtonManager_wasPressed_result(button)
           b1      == ButtonManager_wasPressed_after(button)
           held    == ButtonManager_wasHeld_result(b1)
           b2      == ButtonManager_wasHeld_after(b1)
       IN  /\ button' = b2
           /\ buzzer' = IF pressed /\ BuzzerManager_isBuzzerActive(buzzer)
                        THEN BuzzerManager_stopAlert(buzzer)
                        ELSE buzzer
           /\ currentState' = SleepOnHeld(currentState, held)
           /\ tick' = [tick EXCEPT !.pressed = pressed, !.held = held]
    /\ pc' = "getcmd"
    /\ UNCHANGED <<events, buttonPin, btnObs, ret, sensor, ble, ctrlValue, currentSensorData,
                   currentAlert, lastSensorRead, systemInitialized, command, unconsumed,
                   probe>>

\* main.cpp:203-205
GetCommand ==
    /\ pc = "getcmd"
    /\ command' = BLEManager_getCommand(ble)
    /\ pc' = IF command' # CMD_NONE THEN "exec" ELSE "states"
    /\ UNCHANGED <<events, buttonPin, button, btnObs, ret, buzzer, sensor, ble, ctrlValue,
                   currentState, currentSensorData, currentAlert, lastSensorRead,
                   systemInitialized, tick, unconsumed, probe>>

\* main.cpp:206-232
RunCommand ==
    /\ pc = "exec"
    /\ LET st == ExecuteCommand(command,
                    [buzzer |-> buzzer, currentState |-> currentState,
                     currentAlert |-> currentAlert, sent |-> tick.sent])
       IN  /\ buzzer' = st.buzzer
           /\ currentState' = st.currentState
           /\ currentAlert' = st.currentAlert
           /\ tick' = [tick EXCEPT !.executed = command, !.sent = st.sent]
    /\ unconsumed' = FALSE
    /\ probe' = ProbeAfterCommand(probe, command)
    /\ pc' = "clear"
    /\ UNCHANGED <<events, buttonPin, button, btnObs, ret, sensor, ble, ctrlValue,
                   currentSensorData, lastSensorRead, systemInitialized, command>>

\* main.cpp:234
ClearCommand ==
    /\ pc = "clear"
    /\ ble' = BLEManager_clearCommand(ble)
    /\ command' = CMD_NONE
    /\ pc' = "states"
    /\ UNCHANGED <<events, buttonPin, button, btnObs, ret, buzzer, sensor, ctrlValue,
                   currentState, currentSensorData, currentAlert, lastSensorRead,
                   systemInitialized, tick, unconsumed, probe>>

(***************************************************************************)
(* handleSystemStates(): one action per case of its switch. The default    *)
(* case needs currentState = STATE_SLEEPING, which setup() overwrites      *)
(* before loop() first runs.                                               *)
(***************************************************************************)
\* main.cpp:117-121
StateWakingUp ==
    /\ pc = "states"
    /\ currentState = STATE_WAKING_UP
    /\ currentState' = STATE_READING_SENSORS
    /\ tick' = [tick EXCEPT !.handled = STATE_WAKING_UP]
    /\ pc' = "delay"
    /\ UNCHANGED <<events, buttonPin, button, btnObs, ret, buzzer, sensor, ble, ctrlValue,
                   currentSensorData, currentAlert, lastSensorRead,
                   systemInitialized, command, unconsumed, probe>>

\* main.cpp:123-136; delay(500) after a failed read
StateReadingSensors ==
    /\ pc = "states"
    /\ currentState = STATE_READING_SENSORS
    /\ IF Elapsed(millis, lastSensorRead) >= SENSOR_READ_INTERVAL_MS
       THEN \E sample \in BusSamples :
              LET r == SensorManager_readSensors(sensor, currentSensorData, millis, sample)
              IN  IF r.ok
                  THEN /\ TimePasses(0, button, btnObs, buzzer, r.sensor, ble, r.data, millis)
                       /\ currentState' = ReadingNext(r.ok, currentState)
                  ELSE /\ TimePasses(500, button, btnObs, buzzer, r.sensor, ble, r.data,
                                     lastSensorRead)
                       /\ currentState' = ReadingNext(r.ok, currentState)
       ELSE UNCHANGED <<button, btnObs, buzzer, sensor, ble, currentSensorData,
                        lastSensorRead, currentState>>
    /\ tick' = [tick EXCEPT !.handled = STATE_READING_SENSORS]
    /\ pc' = "delay"
    /\ UNCHANGED <<events, buttonPin, ret, ctrlValue, currentAlert, systemInitialized,
                   command, unconsumed, probe>>

\* main.cpp:138-143
StateProcessingAlerts ==
    /\ pc = "states"
    /\ currentState = STATE_PROCESSING_ALERTS
    /\ LET r == processAlerts(currentAlert, currentSensorData, buzzer, millis)
       IN  /\ currentAlert' = r.currentAlert
           /\ buzzer' = r.buzzer
           /\ tick' = [tick EXCEPT !.handled = STATE_PROCESSING_ALERTS,
                                   !.buzz = r.call,
                                   !.prevAlert = currentAlert]
    /\ currentState' = STATE_BLE_COMMUNICATION
    /\ probe' = ProbeAfterProcessing(probe)
    /\ pc' = "delay"
    /\ UNCHANGED <<events, buttonPin, button, btnObs, ret, sensor, ble, ctrlValue,
                   currentSensorData, lastSensorRead, systemInitialized,
                   command, unconsumed>>

\* main.cpp:145-149: the send. deviceConnected is read again at line 152,
\* after the BLE task may have run.
StateBleCommunication ==
    /\ pc = "states"
    /\ currentState = STATE_BLE_COMMUNICATION
    /\ tick' = [tick EXCEPT
                  !.handled = STATE_BLE_COMMUNICATION,
                  !.sent = IF BLEManager_isConnected(ble) \/ ~BLEManager_hasTimedOut(ble, millis)
                           THEN @ \o BLEManager_sendSensorData(ble, currentSensorData, currentAlert)
                           ELSE @]
    /\ pc' = "comm"
    /\ UNCHANGED <<events, buttonPin, button, btnObs, ret, buzzer, sensor, ble, ctrlValue,
                   currentState, currentSensorData, currentAlert, lastSensorRead,
                   systemInitialized, command, unconsumed, probe>>

\* main.cpp:151-161
StateBleDecide ==
    /\ pc = "comm"
    /\ currentState' = CommunicationNext(BLEManager_hasTimedOut(ble, millis),
                                         BLEManager_isConnected(ble))
    /\ pc' = "delay"
    /\ UNCHANGED <<events, buttonPin, button, btnObs, ret, buzzer, sensor, ble, ctrlValue,
                   currentSensorData, currentAlert, lastSensorRead,
                   systemInitialized, command, tick, unconsumed, probe>>

\* main.cpp:163-166
StatePreparingSleep ==
    /\ pc = "states"
    /\ currentState = STATE_PREPARING_SLEEP
    /\ buzzer' = BuzzerManager_stopAlert(buzzer)
    /\ ble' = BLEManager_stop(ble)
    /\ tick' = [tick EXCEPT !.handled = STATE_PREPARING_SLEEP]
    /\ pc' = "sleepdelay"
    /\ UNCHANGED <<events, buttonPin, button, btnObs, ret, sensor, ctrlValue,
                   currentState, currentSensorData, currentAlert, lastSensorRead,
                   systemInitialized, command, unconsumed, probe>>

\* main.cpp:169-171 and enterDeepSleep(): after delay(1000) the device
\* powers down; esp_deep_sleep_start() does not return.
enterDeepSleep ==
    /\ pc = "sleepdelay"
    /\ TimePasses(1000, button, btnObs, buzzer, sensor, ble, currentSensorData,
                  lastSensorRead)
    /\ pc' = "asleep"
    /\ UNCHANGED <<events, buttonPin, ret, ctrlValue, currentState, currentAlert,
                   systemInitialized, command, tick, unconsumed, probe>>

\* main.cpp:80: delay(10) ends the pass; the pass has taken d ms in all.
LoopDelay ==
    /\ pc = "delay"
    /\ \E d \in LoopTimeSteps :
         TimePasses(d, button, btnObs, buzzer, sensor, ble, currentSensorData,
                    lastSensorRead)
    /\ tick' = TickInit(currentState)
    /\ pc' = "loop"
    /\ UNCHANGED <<events, buttonPin, ret, ctrlValue, currentState, currentAlert,
                   systemInitialized, command, unconsumed, probe>>

(***************************************************************************)
(* The environment: the button, and the BLE task's callbacks, which run    *)
(* between any two steps of the loop task until the device powers down.    *)
(***************************************************************************)
\* The pin is sampled by update() only (button.cpp:20), and by nothing once
\* the device is asleep, so it moves between passes, during the waits.
PinMoves == {"setup", "delay", "sleepdelay", "harness"}

PressButton ==
    /\ pc \in PinMoves
    /\ buttonPin = HIGH
    /\ events < MaxEvents
    /\ events' = events + 1
    /\ buttonPin' = LOW
    /\ ret' = IF pc = "harness" THEN [op |-> "pin", val |-> FALSE] ELSE ret
    /\ UNCHANGED <<button, btnObs, buzzer, sensor, ble, ctrlValue, currentState,
                   currentSensorData, currentAlert, lastSensorRead, systemInitialized,
                   pc, command, tick, unconsumed, probe>>

ReleaseButton ==
    /\ pc \in PinMoves
    /\ buttonPin = LOW
    /\ buttonPin' = HIGH
    /\ btnObs' = ObsAfterPin(btnObs, HIGH)
    /\ ret' = IF pc = "harness" THEN [op |-> "pin", val |-> FALSE] ELSE ret
    /\ UNCHANGED <<events, button, buzzer, sensor, ble, ctrlValue, currentState,
                   currentSensorData, currentAlert, lastSensorRead, systemInitialized,
                   pc, command, tick, unconsumed, probe>>

\* A peer attaches only while the device advertises; the stack stops
\* advertising when it does.
OnConnect ==
    /\ pc # "asleep"
    /\ ble.server /\ ble.advertising /\ ~ble.deviceConnected
    /\ events < MaxEvents
    /\ events' = events + 1
    /\ ble' = [ServerCallbacks_onConnect(ble) EXCEPT !.advertising = FALSE]
    /\ probe' = [probe EXCEPT !.everConnected = TRUE]
    /\ UNCHANGED <<buttonPin, button, btnObs, ret, buzzer, sensor, ctrlValue,
                   currentState, currentSensorData, currentAlert, lastSensorRead,
                   systemInitialized, pc, command, tick, unconsumed>>

OnDisconnect ==
    /\ pc # "asleep"
    /\ ble.server /\ ble.deviceConnected
    /\ ble' = ServerCallbacks_onDisconnect(ble)
    /\ probe' = ProbeAfterDisconnect(probe)
    /\ UNCHANGED <<events, buttonPin, button, btnObs, ret, buzzer, sensor, ctrlValue,
                   currentState, currentSensorData, currentAlert, lastSensorRead,
                   systemInitialized, pc, command, tick, unconsumed>>

\* The connected peer writes the control characteristic.
OnWrite ==
    /\ pc # "asleep"
    /\ ble.server /\ ble.deviceConnected
    /\ events < MaxEvents
    /\ events' = events + 1
    /\ \E value \in LoopPayloads :
         /\ ble' = ControlCallbacks_onWrite(ble, value)
         /\ unconsumed' = (unconsumed \/ (Len(value) > 0 /\ atoi(value) \in 1..4))
    /\ UNCHANGED <<buttonPin, button, btnObs, ret, buzzer, sensor, ctrlValue,
                   currentState, currentSensorData, currentAlert, lastSensorRead,
                   systemInitialized, pc, command, tick, probe>>

Next ==
    \/ Setup
    \/ LoopUpdate
    \/ HandleConnection
    \/ HandleButtons
    \/ GetCommand
    \/ RunCommand
    \/ ClearCommand
    \/ StateWakingUp
    \/ StateReadingSensors
    \/ StateProcessingAlerts
    \/ StateBleCommunication
    \/ StateBleDecide
    \/ StatePreparingSleep
    \/ enterDeepSleep
    \/ LoopDelay
    \/ PressButton
    \/ ReleaseButton
    \/ OnConnect
    \/ OnDisconnect
    \/ OnWrite

Spec == Init /\ [][Next]_vars

(***************************************************************************)
(* ButtonSpec: ButtonManager alone, its three methods called in any order  *)
(* while time passes and the button moves.                                 *)
(***************************************************************************)
ButtonInit == Constructed /\ ble = BLEManager_BLEManager /\ pc = "harness"

\* Only the ButtonManager is live here; the other objects stay as constructed.
HarnessTime ==
    /\ pc = "harness"
    /\ \E d \in ButtonTimeSteps :
         /\ button' = ButtonLater(button, d)
         /\ btnObs' = ObsLater(btnObs, d)
    /\ ret' = [op |-> "time", val |-> FALSE]
    /\ UNCHANGED <<events, buttonPin, buzzer, sensor, ble, ctrlValue, currentState,
                   currentSensorData, currentAlert, lastSensorRead, systemInitialized,
                   pc, command, tick, unconsumed, probe>>

CallUpdate ==
    /\ pc = "harness"
    /\ button' = ButtonManager_update(button, buttonPin, millis)
    /\ btnObs' = ObsAfterUpdate(btnObs, button, button', millis)
    /\ ret' = [op |-> "update", val |-> FALSE]
    /\ UNCHANGED <<events, buttonPin, buzzer, sensor, ble, ctrlValue, currentState,
                   currentSensorData, currentAlert, lastSensorRead, systemInitialized,
                   pc, command, tick, unconsumed, probe>>

CallWasPressed ==
    /\ pc = "harness"
    /\ button' = ButtonManager_wasPressed_after(button)
    /\ ret' = [op |-> "wasPressed", val |-> ButtonManager_wasPressed_result(button)]
    /\ UNCHANGED <<events, buttonPin, btnObs, buzzer, sensor, ble, ctrlValue, currentState,
                   currentSensorData, currentAlert, lastSensorRead, systemInitialized,
                   pc, command, tick, unconsumed, probe>>

CallWasHeld ==
    /\ pc = "harness"
    /\ button' = ButtonManager_wasHeld_after(button)
    /\ ret' = [op |-> "wasHeld", val |-> ButtonManager_wasHeld_result(button)]
    /\ UNCHANGED <<events, buttonPin, btnObs, buzzer, sensor, ble, ctrlValue, currentState,
                   currentSensorData, currentAlert, lastSensorRead, systemInitialized,
                   pc, command, tick, unconsumed, probe>>

ButtonNext ==
    \/ HarnessTime
    \/ CallUpdate
    \/ CallWasPressed
    \/ CallWasHeld
    \/ PressButton
    \/ ReleaseButton

ButtonSpec == ButtonInit /\ [][ButtonNext]_vars

(***************************************************************************)
(* WriteSpec: ControlCallbacks::onWrite alone, on a started BLEManager     *)
(* with a peer attached and any command pending.                           *)
(***************************************************************************)
WriteInit ==
    /\ Constructed
    /\ \E c \in BLECommand :
         ble = [ServerCallbacks_onConnect(BLEManager_begin(BLEManager_BLEManager, millis))
                   EXCEPT !.pendingCommand = c, !.advertising = FALSE]
    /\ pc = "harness"

CallOnWrite ==
    /\ pc = "harness"
    /\ \E value \in Payloads :
         /\ ctrlValue' = value
         /\ ble' = ControlCallbacks_onWrite(ble, value)
    /\ ret' = [op |-> "onWrite", val |-> FALSE]
    /\ UNCHANGED <<events, buttonPin, button, btnObs, buzzer, sensor, currentState,
                   currentSensorData, currentAlert, lastSensorRead, systemInitialized,
                   pc, command, tick, unconsumed, probe>>

WriteNext == CallOnWrite

WriteSpec == WriteInit /\ [][WriteNext]_vars

(***************************************************************************)
(* BuzzerSpec: BuzzerManager alone, begin() first and then its methods in  *)
(* any order while time passes.                                            *)
(***************************************************************************)
BuzzerInit == Constructed /\ ble = BLEManager_BLEManager /\ pc = "harness"

BuzzerCall(op, val, z, p) ==
    /\ pc = "harness"
    /\ buzzer' = z
    /\ probe' = p
    /\ ret' = [op |-> op, val |-> val]
    /\ UNCHANGED <<events, buttonPin, button, btnObs, sensor, ble, ctrlValue,
                   currentState, currentSensorData, currentAlert, lastSensorRead,
                   systemInitialized, pc, command, tick, unconsumed>>

CallBuzzerBegin ==
    /\ ret.op = "none"
    /\ BuzzerCall("begin", TRUE, BuzzerManager_begin(buzzer), probe)

CallStartAlert ==
    /\ ret.op # "none"
    /\ \E level \in AlertLevel :
         BuzzerCall("startAlert", ~buzzer.isMuted /\ level # ALERT_NONE,
                    BuzzerManager_startAlert(buzzer, level, millis),
                    ProbeAfterStart(probe, ~buzzer.isMuted /\ level # ALERT_NONE,
                                    level, millis))

CallStopAlert ==
    /\ ret.op # "none"
    /\ BuzzerCall("stopAlert", FALSE, BuzzerManager_stopAlert(buzzer),
                  ProbeAfterStopOrMute(probe))

CallMute ==
    /\ ret.op # "none"
    /\ BuzzerCall("mute", FALSE, BuzzerManager_mute(buzzer), ProbeAfterStopOrMute(probe))

CallUnmute ==
    /\ ret.op # "none"
    /\ BuzzerCall("unmute", FALSE, BuzzerManager_unmute(buzzer), probe)

CallBuzzerUpdate ==
    /\ ret.op # "none"
    /\ BuzzerCall("update", FALSE, BuzzerManager_update(buzzer, millis),
                  ProbeAfterBuzzerUpdate(probe, millis))

BuzzerTime ==
    /\ ret.op # "none"
    /\ \E d \in BuzzerTimeSteps :
         BuzzerCall("time", FALSE, BuzzerLater(buzzer, d), ProbeLater(probe, d))

BuzzerNext ==
    \/ CallBuzzerBegin
    \/ CallStartAlert
    \/ CallStopAlert
    \/ CallMute
    \/ CallUnmute
    \/ CallBuzzerUpdate
    \/ BuzzerTime

BuzzerSpec == BuzzerInit /\ [][BuzzerNext]_vars

(***************************************************************************)
(* SensorSpec: SensorManager alone, begin() first and then readSensors()   *)
(* on the caller's SensorData while time passes.                           *)
(***************************************************************************)
SensorInit == Constructed /\ ble = BLEManager_BLEManager /\ pc = "harness"

SensorCall(op, val, sn, data, p) ==
    /\ pc = "harness"
    /\ sensor' = sn
    /\ currentSensorData' = data
    /\ probe' = p
    /\ ret' = [op |-> op, val |-> val]
    /\ UNCHANGED <<events, buttonPin, button, btnObs, buzzer, ble, ctrlValue,
                   currentState, currentAlert, lastSensorRead,
                   systemInitialized, pc, command, tick, unconsumed>>

\* sensor.cpp:11-37: begin() fails, or waits 500 ms and succeeds.
CallSensorBegin ==
    /\ ret.op = "none"
    /\ \E ok \in BOOLEAN :
         SensorCall("begin", ok,
                    IF ok THEN [SensorLater(sensor, 500) EXCEPT !.initialized = TRUE]
                          ELSE sensor,
                    IF ok THEN DataLater(currentSensorData, 500) ELSE currentSensorData,
                    probe)

CallReadSensors ==
    /\ ret.op # "none"
    /\ \E sample \in BusSamples :
         LET r == SensorManager_readSensors(sensor, currentSensorData, millis, sample)
         IN  SensorCall("readSensors", r.ok, r.sensor, r.data,
                        [probe EXCEPT !.sample = sample])

SensorTime ==
    /\ ret.op # "none"
    /\ \E d \in SensorTimeSteps :
         SensorCall("time", FALSE, SensorLater(sensor, d),
                    DataLater(currentSensorData, d), probe)

SensorNext ==
    \/ CallSensorBegin
    \/ CallReadSensors
    \/ SensorTime

SensorSpec == SensorInit /\ [][SensorNext]_vars

(***************************************************************************)
(* ClassifySpec: getAlertLevel() applied to any eCO2 value, alone and by   *)
(* processAlerts() on a valid reading of that value.                       *)
(***************************************************************************)
ClassifyInit ==
    /\ Constructed /\ ble = BLEManager_BLEManager /\ pc = "harness"

CallGetAlertLevel ==
    /\ pc = "harness"
    /\ \E v \in ClassifyInputs :
         /\ probe' = [probe EXCEPT !.sample = v]
         /\ ret' = [op |-> "getAlertLevel", val |-> SensorManager_getAlertLevel(v)]
    /\ UNCHANGED <<events, buttonPin, button, btnObs, buzzer, sensor, ble, ctrlValue,
                   currentState, currentSensorData, currentAlert, lastSensorRead,
                   systemInitialized, pc, command, tick, unconsumed>>

CallProcessAlerts ==
    /\ pc = "harness"
    /\ \E v \in ClassifyInputs :
         LET data == [co2_ppm |-> v, humidity_percent |-> 40,
                      temperature_celsius |-> 25, valid |-> TRUE, timestamp |-> millis]
             r    == processAlerts(currentAlert, data, buzzer, millis)
         IN  /\ currentSensorData' = data
             /\ currentAlert' = r.currentAlert
             /\ buzzer' = r.buzzer
             /\ probe' = [probe EXCEPT !.sample = v]
             /\ ret' = [op |-> "processAlerts", val |-> r.currentAlert]
    /\ UNCHANGED <<events, buttonPin, button, btnObs, sensor, ble, ctrlValue,
                   currentState, lastSensorRead, systemInitialized, pc, command,
                   tick, unconsumed>>

ClassifyNext ==
    \/ CallGetAlertLevel
    \/ CallProcessAlerts

ClassifySpec == ClassifyInit /\ [][ClassifyNext]_vars

(***************************************************************************)
(* Properties of ButtonManager (ButtonSpec)                                *)
(***************************************************************************)
HeldRaised == ~button.wasHeld_flag /\ button'.wasHeld_flag

PressedRaised == ~button.wasPressed_flag /\ button'.wasPressed_flag

\* C5: Held is raised at most once per continuous press: once wasHeld() has
\* returned and cleared it, update() does not raise it again while the
\* button stays down.  The code raises it again: update() tests only that the
\* flag is clear, which wasHeld() has just made true.
C5_HeldOncePerPress == btnObs.heldRaises <= 1

\* C6: Held is raised only while the debounced state is pressed, at least
\* BUTTON_HOLD_TIME_MS after the press was accepted, and never before the
\* Pressed event of that press was raised.
C6_HeldOnlyAfterHold ==
    [][HeldRaised =>
          /\ ret'.op = "update"
          /\ button'.buttonState = LOW
          /\ btnObs'.down
          /\ btnObs'.pressRaised
          /\ Elapsed(millis, btnObs'.acceptedAt) >= BUTTON_HOLD_TIME_MS]_vars

C6_Witness ==
    /\ ret.op = "update"
    /\ button.wasHeld_flag
    /\ button.buttonState = LOW
    /\ btnObs.heldRaises = 1
    /\ btnObs.pressRaised

\* C7: wasPressed() returns the Pressed flag and leaves it clear, and the
\* flag is set again only by update() accepting a new debounced HIGH-to-LOW
\* edge, so every poll in between returns false.
C7_PressedReportedOnce ==
    [][/\ ret'.op = "wasPressed" =>
            (ret'.val = button.wasPressed_flag /\ ~button'.wasPressed_flag)
       /\ PressedRaised =>
            (ret'.op = "update" /\ button.buttonState = HIGH /\ button'.buttonState = LOW)
      ]_vars

\* A poll returned false during a press whose Pressed event had been raised.
C7_Witness ==
    /\ ret = [op |-> "wasPressed", val |-> FALSE]
    /\ button.buttonState = LOW
    /\ btnObs.down
    /\ btnObs.pressRaised

\* C20: Pressed is raised only by an update() that samples LOW while the
\* accepted level is HIGH, after the samples have been LOW without a change
\* for more than 50 ms, so a low pulse sampled HIGH again within the window
\* raises nothing; every accepted HIGH-to-LOW edge raises Pressed, and an
\* accepted LOW-to-HIGH edge raises neither flag.
C20_PressedAfterDebounce ==
    [][/\ PressedRaised =>
             /\ ret'.op = "update"
             /\ buttonPin = LOW
             /\ button.buttonState = HIGH /\ button'.buttonState = LOW
             /\ btnObs.sample = LOW
             /\ Elapsed(millis, btnObs.runStart) > 50
             /\ ~btnObs'.pulse
       /\ (button.buttonState = HIGH /\ button'.buttonState = LOW) =>
             button'.wasPressed_flag
       /\ (button.buttonState = LOW /\ button'.buttonState = HIGH) =>
             /\ button'.wasPressed_flag = button.wasPressed_flag
             /\ button'.wasHeld_flag = button.wasHeld_flag
      ]_vars

\* A low pulse was sampled and was sampled HIGH again half a window later:
\* nothing was accepted and Pressed is not raised.
C20_Witness ==
    /\ ret.op = "update"
    /\ btnObs.pulse
    /\ btnObs.sample = HIGH
    /\ button.buttonState = HIGH
    /\ ~button.wasPressed_flag
    /\ ~button.wasHeld_flag
    /\ buttonPin = HIGH

(***************************************************************************)
(* Properties of ControlCallbacks::onWrite (WriteSpec)                     *)
(***************************************************************************)
\* C9: a write whose payload is empty or whose integer value is not 1..4
\* leaves the pending command as it was; 1, 2, 3 and 4 set it to MuteAlarm,
\* ForceSleep, RequestData and ResetAlerts.
C9_WriteDecoding ==
    [][ret'.op = "onWrite" =>
          LET n == IF Len(ctrlValue') > 0 THEN atoi(ctrlValue') ELSE 0
          IN  ble'.pendingCommand =
                 CASE n = 1 -> CMD_MUTE_BUZZER
                   [] n = 2 -> CMD_FORCE_SLEEP
                   [] n = 3 -> CMD_REQUEST_DATA
                   [] n = 4 -> CMD_RESET_ALERTS
                   [] OTHER -> ble.pendingCommand]_vars

\* A payload out of range was written and the command pending before it is
\* still pending.
C9_Witness ==
    /\ ret.op = "onWrite"
    /\ ctrlValue = <<"5">>
    /\ ble.pendingCommand = CMD_REQUEST_DATA

(***************************************************************************)
(* Properties of the controller (Spec)                                     *)
(***************************************************************************)
ActiveStates ==
    {STATE_WAKING_UP, STATE_READING_SENSORS, STATE_PROCESSING_ALERTS,
     STATE_BLE_COMMUNICATION}

C2_NoSleepWhilePressed == pc = "asleep" => buttonPin = HIGH

\* C3: when a subsystem fails to initialize the controller never enters the
\* monitoring loop.  The code marks the system initialized and runs the loop
\* after setupSystem() has returned early.
C3_InitFailureHalts ==
    (pc # "setup" /\ ~sensor.initialized)
        => (~systemInitialized /\ pc = "loop" /\ currentState = STATE_SLEEPING)

\* C4: when Held or ForceSleep is drained in a pass that began in WakingUp,
\* ReadingSensors, ProcessingAlerts or Communicating, the controller is in
\* PreparingSleep from then on and that pass handles no state but
\* PreparingSleep.
C4_SleepPreempts ==
    ((tick.held \/ tick.executed = CMD_FORCE_SLEEP) /\ tick.entry \in ActiveStates)
        => /\ currentState = STATE_PREPARING_SLEEP
           /\ tick.handled \in {"none", STATE_PREPARING_SLEEP}

\* Held drained in a pass that began in Communicating, and the device asleep.
C4_Witness ==
    /\ tick.held
    /\ tick.entry = STATE_BLE_COMMUNICATION
    /\ tick.handled = STATE_PREPARING_SLEEP
    /\ pc = "asleep"

\* C8: a command is executed only if a write decoded it since the last
\* execution, and once handleBLECommands has executed and cleared it nothing
\* is pending until the peer writes again.
C8_ExecutedOnce ==
    /\ pc = "exec" => unconsumed
    /\ (tick.executed # CMD_NONE /\ pc # "clear" /\ ~unconsumed)
          => ble.pendingCommand = CMD_NONE

\* A command was executed in this pass and nothing is pending afterwards.
C8_Witness ==
    /\ tick.executed = CMD_REQUEST_DATA
    /\ pc = "delay"
    /\ ~unconsumed
    /\ ble.pendingCommand = CMD_NONE

\* The level of a CO2 value by the thresholds of the text.
ClassifiedLevel(co2) ==
    IF co2 <= 1000 THEN ALERT_NONE
    ELSE IF co2 <= 5000 THEN ALERT_LOW
    ELSE IF co2 <= 10000 THEN ALERT_MEDIUM
    ELSE ALERT_HIGH

\* C10: a pass that handles ProcessingAlerts calls start() on the alarm
\* exactly when the classified level differs from the recorded one and is
\* not None, stop() exactly when it changes from non-None to None, neither
\* when it is unchanged, and afterwards the recorded level is the classified
\* one.
C10_AlarmOnChange ==
    (pc = "delay" /\ tick.handled = STATE_PROCESSING_ALERTS) =>
        LET new == ClassifiedLevel(currentSensorData.co2_ppm)
            old == tick.prevAlert
        IN  /\ currentSensorData.valid
            /\ (tick.buzz = "start") <=> (new # old /\ new # ALERT_NONE)
            /\ (tick.buzz = "stop") <=> (new = ALERT_NONE /\ old # ALERT_NONE)
            /\ (new = old) => tick.buzz = "none"
            /\ currentAlert = new

\* start() called for a level lower than the recorded one.
C10_Witness ==
    /\ pc = "delay"
    /\ tick.handled = STATE_PROCESSING_ALERTS
    /\ tick.buzz = "start"
    /\ tick.prevAlert = ALERT_HIGH
    /\ currentAlert = ALERT_LOW

C15_FailedReadKeepsAlert ==
    [][(/\ pc = "states" /\ pc' # "states"
        /\ currentState = STATE_READING_SENSORS
        /\ ~currentSensorData'.valid) =>
          /\ pc' = "delay"
          /\ currentState' = STATE_READING_SENSORS
          /\ currentAlert' = currentAlert
          /\ buzzer'.currentAlert = buzzer.currentAlert
          /\ buzzer'.isMuted = buzzer.isMuted
          /\ buzzer'.duty = buzzer.duty
      ]_vars

\* A read has failed while the High pattern was sounding.
C15_Witness ==
    /\ pc = "delay"
    /\ tick.handled = STATE_READING_SENSORS
    /\ sensor.initialized
    /\ ~currentSensorData.valid
    /\ currentState = STATE_READING_SENSORS
    /\ currentAlert = ALERT_HIGH
    /\ buzzer.currentAlert = ALERT_HIGH

\* C16: once a peer has attached, the discovery time-out has no effect on
\* the session: a pass that handles Communicating after the peer has gone
\* goes on to ReadingSensors however long ago begin() was.  The code
\* measures the time-out from begin() only and applies it whenever no peer
\* is attached.
C16_NoTimeoutAfterConnect ==
    [][(probe.everConnected /\ pc = "comm" /\ pc' = "delay")
          => currentState' = STATE_READING_SENSORS]_vars

\* C18: every detach is followed by a restart of advertising made by
\* handleConnection(): the first call after the detach restarts it.  The
\* code restarts only if an earlier call has seen the attachment, so a peer
\* that attaches and detaches between two calls is never followed by a
\* restart.
C18_DetachRestartsAdvertising ==
    [][(pc = "conn" /\ pc' = "buttons" /\ probe.detachPending)
          => (~probe'.detachPending /\ ble'.advertising)]_vars

C21_NoCommandLost ==
    (unconsumed /\ pc \notin {"sleepdelay", "asleep"}) => ble.pendingCommand # CMD_NONE

\* C22: at the end of every pass of loop(), a buzzer that is active (pattern
\* level not None and not muted) sounds the pattern of the level the
\* controller has recorded.
C22_ActivePatternIsRecordedLevel ==
    (pc = "delay" /\ BuzzerManager_isBuzzerActive(buzzer)) =>
        buzzer.currentAlert = currentAlert

\* The Medium pattern, started in an earlier pass, is still sounding at the
\* end of a pass that handled Communicating.
C22_Witness ==
    /\ pc = "delay"
    /\ tick.handled = STATE_BLE_COMMUNICATION
    /\ BuzzerManager_isBuzzerActive(buzzer)
    /\ buzzer.currentRepeat >= 1
    /\ buzzer.currentAlert = ALERT_MEDIUM
    /\ currentAlert = ALERT_MEDIUM

\* C23: every telemetry record pushed to the peer in a pass of loop(), from
\* Communicating or for a RequestData command, carries a reading whose
\* valid flag is true.
C23_OnlyValidReadingsSent ==
    \A i \in 1..Len(tick.sent) : tick.sent[i].valid

(***************************************************************************)
(* Properties of BuzzerManager (BuzzerSpec)                                *)
(***************************************************************************)
\* C12: while the buzzer is muted startAlert() changes nothing, whatever
\* the level; mute() silences the output at once; and from then until
\* unmute() the output stays silent and isBuzzerActive() stays false.
C12_MutedStaysSilent ==
    [][/\ (ret'.op = "startAlert" /\ buzzer.isMuted) => buzzer' = buzzer
       /\ ret'.op = "mute" =>
             (buzzer'.isMuted /\ buzzer'.duty = 0 /\ ~BuzzerManager_isBuzzerActive(buzzer'))
       /\ buzzer.isMuted => (buzzer.duty = 0 /\ ~BuzzerManager_isBuzzerActive(buzzer))
       /\ (buzzer.isMuted /\ ~buzzer'.isMuted) => ret'.op = "unmute"
      ]_vars

\* startAlert() was called on a buzzer muted in the middle of a pattern.
C12_Witness ==
    /\ ret = [op |-> "startAlert", val |-> FALSE]
    /\ buzzer.isMuted
    /\ buzzer.currentAlert = ALERT_LOW
    /\ buzzer.currentRepeat = 3
    /\ buzzer.duty = 0

\* C13: a pattern that nothing stops, mutes or restarts toggles once per
\* update() made at least 500 ms after the previous toggle; through nine
\* toggles it is active at its level, and the tenth leaves the level None,
\* the repeat counter 0, the output silent and isBuzzerActive() false.
C13_AutoStopAfterTen ==
    probe.pattern # ALERT_NONE =>
        IF probe.toggles < 10
        THEN /\ BuzzerManager_isBuzzerActive(buzzer)
             /\ buzzer.currentAlert = probe.pattern
             /\ buzzer.currentRepeat = probe.toggles
             /\ buzzer.duty = IF probe.toggles % 2 = 0 THEN 128 ELSE 0
        ELSE /\ ~BuzzerManager_isBuzzerActive(buzzer)
             /\ buzzer.currentAlert = ALERT_NONE
             /\ buzzer.currentRepeat = 0
             /\ buzzer.duty = 0

\* The tenth toggle of a High pattern has just been made.
C13_Witness ==
    /\ ret.op = "update"
    /\ probe.pattern = ALERT_HIGH
    /\ probe.toggles = 10
    /\ buzzer.currentAlert = ALERT_NONE

(***************************************************************************)
(* Properties of SensorManager (SensorSpec)                                *)
(***************************************************************************)
\* The cached reading is valid and less than the read interval old.
CacheFresh ==
    /\ sensor.lastReading.valid
    /\ Elapsed(millis, sensor.lastReadTime) < 1000

\* C14: a read within 1000 ms of the last valid sample returns the cached
\* reading, fields and timestamp, whatever the bus would give; a read after
\* that whose sample fails returns valid = false and leaves the cached
\* reading and its sample time alone; the cache changes only when a sample
\* succeeds.
C14_CacheChangesOnSuccessOnly ==
    [][ret'.op = "readSensors" =>
          /\ (sensor.initialized /\ CacheFresh) =>
                /\ ret'.val
                /\ currentSensorData' = sensor.lastReading
                /\ sensor' = sensor
          /\ (sensor.initialized /\ ~CacheFresh /\ ~probe'.sample.ok) =>
                /\ ~ret'.val
                /\ ~currentSensorData'.valid
                /\ sensor' = sensor
          /\ sensor' # sensor =>
                /\ ~CacheFresh
                /\ probe'.sample.ok
                /\ ret'.val
                /\ sensor'.lastReadTime = millis
                /\ sensor'.lastReading = currentSensorData'
                /\ currentSensorData'.co2_ppm = probe'.sample.co2
                /\ currentSensorData'.timestamp = millis
      ]_vars

\* A read after the interval failed and the reading cached before it, now
\* older than the interval, is still there.
C14_Witness ==
    /\ ret = [op |-> "readSensors", val |-> FALSE]
    /\ ~probe.sample.ok
    /\ ~currentSensorData.valid
    /\ sensor.lastReading.valid
    /\ sensor.lastReading.co2_ppm = 1500
    /\ Elapsed(millis, sensor.lastReadTime) >= 1000

(***************************************************************************)
(* Properties of getAlertLevel (ClassifySpec)                              *)
(***************************************************************************)
\* C17: getAlertLevel(v) is None for v <= 1000, Low for 1000 < v <= 5000,
\* Medium for 5000 < v <= 10000 and High above; it does not decrease as v
\* grows, is never Critical, and the level recorded from it is never
\* Critical.
C17_ClassifyBands ==
    /\ \A v \in ClassifyInputs :
          SensorManager_getAlertLevel(v) =
             CASE v <= 1000               -> ALERT_NONE
               [] 1000 < v /\ v <= 5000   -> ALERT_LOW
               [] 5000 < v /\ v <= 10000  -> ALERT_MEDIUM
               [] v > 10000               -> ALERT_HIGH
    /\ \A v, w \in ClassifyInputs :
          v <= w => SensorManager_getAlertLevel(v) <= SensorManager_getAlertLevel(w)
    /\ ret.op \in {"getAlertLevel", "processAlerts"} =>
          /\ ret.val = ClassifiedLevel(probe.sample)
          /\ ret.val # ALERT_CRITICAL
    /\ currentAlert # ALERT_CRITICAL
    /\ buzzer.currentAlert # ALERT_CRITICAL

\* A value just above the highest threshold was classified and recorded.
C17_Witness ==
    /\ ret = [op |-> "processAlerts", val |-> ALERT_HIGH]
    /\ probe.sample = 10001
    /\ currentAlert = ALERT_HIGH

====
